---------------------------- MODULE Spec2Model ----------------------------
(***************************************************************************)
(* Model of the esp32-time-weather firmware: the shared I2C bus registry   *)
(* (components/common_i2c/common_i2c_init.c), the bootstrap in app_main,   *)
(* the Wi-Fi join (main/wifi.c), the SNTP wait (main/sntp.c) and the two   *)
(* tasks that share the BME280 measurement record (main/main.c).           *)
(*                                                                         *)
(* Calls into the vendor drivers (i2c_master, bme280, ssd1306, nvs,        *)
(* esp_wifi, esp_netif_sntp) are the environment: each returns success or  *)
(* failure nondeterministically.  ESP_ERROR_CHECK(x) aborts the process    *)
(* when x is not ESP_OK: the model sets halted and nothing runs after.     *)
(***************************************************************************)
EXTENDS Integers, Sequences, FiniteSets, TLC

VARIABLES
    \* ---- common_i2c_init.c
    i2c_bus,                \* static i2c_master_bus_handle_t (NULL = 0)
    sensor_i2c_dev,         \* static i2c_master_dev_handle_t
    screen_i2c_dev,         \* static i2c_master_dev_handle_t
    ipc,                    \* position inside i2c_shared_init ("idle": not in a call)
    ret,                    \* value returned by the last i2c_shared_init call
    nextHandle,             \* the next handle value the I2C driver hands out
    calls,                  \* number of i2c_shared_init calls started
    hwlog,                  \* history: the hardware operations performed, in order
    retlog,                 \* history: per returned call, its result and the handles then
    \* ---- main.c
    bme280_device_handle,   \* the I2C device the BME280 driver context is bound to
    ssd1306_device_handle,  \* the I2C device the SSD1306 driver context is bound to
    mpc,                    \* position of the main task (app_main, then print_data)
    halted,                 \* the process has aborted (ESP_ERROR_CHECK / configASSERT)
    s_bme_lock,             \* the mutex: "null" (not created), "free", or its holder
    bme280_device_data,     \* the shared measurement record
    tmp,                    \* sensor_task's local record
    spc,                    \* position of sensor_task
    temperature_str,        \* print_data's locals
    pressure_str,
    humidity_str,
    \* ---- wifi.c
    err,                    \* wifi_init_sta's local: result of the first nvs_flash_init
    s_ip_ready,             \* the binary semaphore: "null", or its count 0 / 1
    registered,             \* event bases wifi_event_handler is registered for
    wifiSt,                 \* the Wi-Fi driver: off / idle / connecting / got_ip
    evq,                    \* events posted to the default event loop, not yet handled
    connects,               \* number of esp_wifi_connect calls
    nvslog,                 \* history: the nvs_flash_* calls and their results
    \* ---- sntp.c
    retry,                  \* wait_for_time_blocking's loop counter
    tm_year,                \* wait_for_time_blocking's ti.tm_year, as last polled
    polls,                  \* history: number of fallback polls of the clock so far
    timeLog,                \* history: what wait_for_time_blocking has logged
    \* ---- history of the two tasks
    published,              \* the arguments of the completed publishes
    lastRead,               \* result of sensor_task's latest bme_forced_read_once
    flushFailed,            \* an ssd1306_update in the render loop has failed
    snapPrev,               \* the strings of the previous completed snapshot
    dirty,                  \* the record was written since that snapshot
    lastPublished,          \* the argument of the most recently completed publish
    \* ---- the SSD1306 frame buffer, and history of the bootstrap
    screen,                 \* per text row: the text drawn last and stale glyph columns
    ipHandled,              \* wifi_event_handler has handled an IP_EVENT_STA_GOT_IP
    connectsAtReturn,       \* esp_wifi_connect calls made when wifi_init_sta returned
    bootlog                 \* the bootstrap steps app_main has completed, in order

regVars  == <<i2c_bus, sensor_i2c_dev, screen_i2c_dev, ipc, ret, nextHandle,
              calls, hwlog, retlog, bme280_device_handle, ssd1306_device_handle>>
wifiVars == <<err, s_ip_ready, registered, wifiSt, evq, connects, nvslog>>
sntpVars == <<retry, tm_year, polls, timeLog>>
taskVars == <<s_bme_lock, bme280_device_data, tmp, spc, temperature_str,
              pressure_str, humidity_str, published, lastRead, flushFailed,
              snapPrev, dirty>>
wifiHist == <<ipHandled, connectsAtReturn>>
vars     == <<regVars, wifiVars, sntpVars, taskVars, mpc, halted,
              lastPublished, screen, wifiHist, bootlog>>

NULL == 0

\* Number of i2c_shared_init calls the registry caller makes.
MaxCalls == 3

\* Number of connection attempts after which the network stops failing.
MaxConnects == 3

\* wait_for_time_blocking: the fallback loop's limit, the year a valid clock
\* must exceed, and struct tm's year offset.
FallbackRetries == 10
ValidYear == 2016
TmYearBase == 1900

\* The years the system clock may show when it is polled.
ClockYears == {1970, 2016, 2017}

-----------------------------------------------------------------------------
(* The SSD1306 frame buffer.  A text row holds the string drawn last, the   *)
(* pixel columns [from, to) its 8-pixel-wide glyphs cover, and the columns  *)
(* of earlier glyphs no later draw has covered.  Columns are counted from   *)
(* WIDTH / 2, the centre every cursor is computed from.                     *)

Rows == {"init", "time", "date", "hum", "temp", "pres"}

EmptyRow == [text |-> "", from |-> 0, to |-> 0, stale |-> {}]

\* ssd1306_clear_screen: the whole buffer is blank.
ssd1306_clear_screen == [r \in Rows |-> EmptyRow]

Min(a, b) == IF a < b THEN a ELSE b
Max(a, b) == IF a > b THEN a ELSE b

\* ssd1306_set_cursor(x, row); ssd1306_draw_string(text, &FONT_8x8, true):
\* the glyph cells that are drawn replace what the buffer held there, the
\* rest of the row keeps what it held.
ssd1306_draw_string(scr, row, x, text) ==
    LET end   == x + 8 * Len(text)
        old   == scr[row].stale \cup
                 (IF scr[row].text = "" THEN {}
                                         ELSE {<<scr[row].from, scr[row].to>>})
        left  == {<<i[1], Min(i[2], x)>> : i \in {j \in old : j[1] < x}}
        right == {<<Max(i[1], end), i[2]>> : i \in {j \in old : j[2] > end}}
    IN  [scr EXCEPT ![row] = [text |-> text, from |-> x, to |-> end,
                               stale |-> left \cup right]]

\* horizontal_cursor = (WIDTH / 2) - ((strlen(s) * 8) / 2), from the centre.
Centered(s) == 0 - ((Len(s) * 8) \div 2)

-----------------------------------------------------------------------------
(* common_i2c_init.c                                                       *)

i2c_get_bus     == i2c_bus
\* Slip: the sensor accessor returns the bus handle.
i2c_get_bme280_ReturnsBus == i2c_bus

i2c_get_bme280  == sensor_i2c_dev
i2c_get_ssd1306 == screen_i2c_dev

\* One hardware operation of the call in progress, and whether it succeeded.
Log(op, ok) == hwlog' = Append(hwlog, [call |-> calls, op |-> op, ok |-> ok])

\* A caller enters i2c_shared_init.
I2cCall ==
    /\ ipc = "idle"
    /\ ipc' = "entry"
    /\ calls' = calls + 1
    /\ ret' = "none"
    /\ UNCHANGED <<i2c_bus, sensor_i2c_dev, screen_i2c_dev, nextHandle, hwlog,
                   retlog, bme280_device_handle, ssd1306_device_handle>>

\* return r: the call ends; the history keeps what the accessors return then.
I2cRet(r) ==
    /\ ret' = r
    /\ ipc' = "ret"
    /\ retlog' = Append(retlog, [r |-> r, bus |-> i2c_get_bus,
                                 bme |-> i2c_get_bme280, ssd |-> i2c_get_ssd1306])

\* Slip: the guard tests a device handle instead of the bus handle.
I2cEntry_TestsDevice ==
    /\ ipc = "entry"
    /\ IF sensor_i2c_dev # NULL
         THEN I2cRet("ESP_OK")
         ELSE ipc' = "new_bus" /\ UNCHANGED <<ret, retlog>>
    /\ UNCHANGED <<i2c_bus, sensor_i2c_dev, screen_i2c_dev, nextHandle, calls,
                   hwlog, bme280_device_handle, ssd1306_device_handle>>

\* if (i2c_bus) return ESP_OK;
I2cEntry ==
    /\ ipc = "entry"
    /\ IF i2c_bus # NULL
         THEN I2cRet("ESP_OK")
         ELSE ipc' = "new_bus" /\ UNCHANGED <<ret, retlog>>
    /\ UNCHANGED <<i2c_bus, sensor_i2c_dev, screen_i2c_dev, nextHandle, calls,
                   hwlog, bme280_device_handle, ssd1306_device_handle>>

\* ESP_RETURN_ON_ERROR(i2c_new_master_bus(&bus_cfg, &i2c_bus), TAG, "bus fail");
I2cNewBus ==
    /\ ipc = "new_bus"
    /\ \E ok \in BOOLEAN :
        /\ Log("new_bus", ok)
        /\ IF ok
             THEN /\ i2c_bus' = nextHandle
                  /\ nextHandle' = nextHandle + 1
                  /\ ipc' = "add_ssd"
                  /\ UNCHANGED <<ret, retlog>>
             ELSE /\ UNCHANGED <<i2c_bus, nextHandle>>
                  /\ I2cRet("ESP_FAIL")
    /\ UNCHANGED <<sensor_i2c_dev, screen_i2c_dev, calls,
                   bme280_device_handle, ssd1306_device_handle>>

\* ESP_RETURN_ON_ERROR(i2c_master_bus_add_device(i2c_bus, &ssd_cfg, &screen_i2c_dev), ...);
I2cAddSsd ==
    /\ ipc = "add_ssd"
    /\ \E ok \in BOOLEAN :
        /\ Log("add_ssd", ok)
        /\ IF ok
             THEN /\ screen_i2c_dev' = nextHandle
                  /\ nextHandle' = nextHandle + 1
                  /\ ipc' = "add_bme"
                  /\ UNCHANGED <<ret, retlog>>
             ELSE /\ UNCHANGED <<screen_i2c_dev, nextHandle>>
                  /\ I2cRet("ESP_FAIL")
    /\ UNCHANGED <<i2c_bus, sensor_i2c_dev, calls,
                   bme280_device_handle, ssd1306_device_handle>>

\* ESP_RETURN_ON_ERROR(i2c_master_bus_add_device(i2c_bus, &bme_cfg, &sensor_i2c_dev), ...);
I2cAddBme ==
    /\ ipc = "add_bme"
    /\ \E ok \in BOOLEAN :
        /\ Log("add_bme", ok)
        /\ IF ok
             THEN /\ sensor_i2c_dev' = nextHandle
                  /\ nextHandle' = nextHandle + 1
                  /\ ipc' = "init_sensor"
                  /\ UNCHANGED <<ret, retlog>>
             ELSE /\ UNCHANGED <<sensor_i2c_dev, nextHandle>>
                  /\ I2cRet("ESP_FAIL")
    /\ UNCHANGED <<i2c_bus, screen_i2c_dev, calls,
                   bme280_device_handle, ssd1306_device_handle>>

\* Slip: a failed sensor configuration is fatal like the display's failures.
init_sensor_Fatal ==
    /\ ipc = "init_sensor"
    /\ bme280_device_handle' = i2c_get_bme280
    /\ \E ok \in BOOLEAN :
        /\ Log("sensor_cfg", ok)
        /\ IF ok THEN ipc' = "probe" /\ UNCHANGED halted
                 ELSE halted' = TRUE /\ UNCHANGED ipc
    /\ UNCHANGED <<i2c_bus, sensor_i2c_dev, screen_i2c_dev, ret, nextHandle,
                   calls, retlog, ssd1306_device_handle>>

\* init_sensor: bind the driver context to i2c_get_bme280() and configure the
\* sensor; a configuration failure is logged and otherwise ignored.
init_sensor ==
    /\ ipc = "init_sensor"
    /\ bme280_device_handle' = i2c_get_bme280
    /\ \E ok \in BOOLEAN : Log("sensor_cfg", ok)
    /\ ipc' = "probe"
    /\ UNCHANGED <<i2c_bus, sensor_i2c_dev, screen_i2c_dev, ret, nextHandle,
                   calls, retlog, ssd1306_device_handle, halted>>

\* Slip: the probe's result is logged and not checked.
init_screen_probe_Unchecked ==
    /\ ipc = "probe"
    /\ \E ok \in BOOLEAN : Log("probe", ok)
    /\ ipc' = "ssd_init"
    /\ UNCHANGED <<i2c_bus, sensor_i2c_dev, screen_i2c_dev, ret, nextHandle,
                   calls, retlog, bme280_device_handle, ssd1306_device_handle,
                   halted>>

\* init_screen, first part: ESP_ERROR_CHECK(i2c_device_probe(&ssd1306_bus, ...)).
init_screen_probe ==
    /\ ipc = "probe"
    /\ \E ok \in BOOLEAN :
        /\ Log("probe", ok)
        /\ IF ok THEN ipc' = "ssd_init" /\ UNCHANGED halted
                 ELSE halted' = TRUE /\ UNCHANGED ipc
    /\ UNCHANGED <<i2c_bus, sensor_i2c_dev, screen_i2c_dev, ret, nextHandle,
                   calls, retlog, bme280_device_handle, ssd1306_device_handle>>

\* ssd1306_link_from_device(&link, &screen_dev), screen_dev.dev being
\* i2c_get_ssd1306(); ESP_ERROR_CHECK(ssd1306_init(...)).
init_screen_init ==
    /\ ipc = "ssd_init"
    /\ \E ok \in BOOLEAN :
        /\ Log("ssd_init", ok)
        /\ IF ok THEN /\ ssd1306_device_handle' = i2c_get_ssd1306
                      /\ ipc' = "init_msg"
                      /\ UNCHANGED halted
                 ELSE /\ halted' = TRUE
                      /\ UNCHANGED <<ipc, ssd1306_device_handle>>
    /\ UNCHANGED <<i2c_bus, sensor_i2c_dev, screen_i2c_dev, ret, nextHandle,
                   calls, retlog, bme280_device_handle>>

\* Draw "Getting Data"; ESP_ERROR_CHECK(ssd1306_update(...)); init_screen
\* returns and i2c_shared_init returns ESP_OK.
init_screen_msg ==
    /\ ipc = "init_msg"
    /\ screen' = ssd1306_draw_string(screen, "init", 0 - (((Len("Getting Data") + 1) \div 2) * 8),
                                      "Getting Data")
    /\ \E ok \in BOOLEAN :
        /\ Log("init_update", ok)
        /\ IF ok THEN I2cRet("ESP_OK") /\ UNCHANGED halted
                 ELSE halted' = TRUE /\ UNCHANGED <<ipc, ret, retlog>>
    /\ UNCHANGED <<i2c_bus, sensor_i2c_dev, screen_i2c_dev, nextHandle,
                   calls, bme280_device_handle, ssd1306_device_handle>>

\* The body of i2c_shared_init, one step at a time.
RegistryStep(A) ==
    /\ ~halted
    /\ A
    /\ UNCHANGED <<wifiVars, sntpVars, taskVars, mpc, lastPublished, wifiHist,
                   bootlog>>

i2c_shared_init ==
    \/ RegistryStep(I2cEntry /\ UNCHANGED <<halted, screen>>)
    \/ RegistryStep(I2cNewBus /\ UNCHANGED <<halted, screen>>)
    \/ RegistryStep(I2cAddSsd /\ UNCHANGED <<halted, screen>>)
    \/ RegistryStep(I2cAddBme /\ UNCHANGED <<halted, screen>>)
    \/ RegistryStep(init_sensor /\ UNCHANGED screen)
    \/ RegistryStep(init_screen_probe /\ UNCHANGED screen)
    \/ RegistryStep(init_screen_init /\ UNCHANGED screen)
    \/ RegistryStep(init_screen_msg)

-----------------------------------------------------------------------------
(* A caller that calls i2c_shared_init several times in a row, whatever    *)
(* the earlier calls returned.                                             *)

RegistryCall ==
    /\ ~halted
    /\ mpc = "registry_caller"
    /\ calls < MaxCalls
    /\ I2cCall
    /\ UNCHANGED <<wifiVars, sntpVars, taskVars, mpc, halted, lastPublished,
                   screen, wifiHist, bootlog>>

RegistryReturn ==
    /\ ~halted
    /\ mpc = "registry_caller"
    /\ ipc = "ret"
    /\ ipc' = "idle"
    /\ UNCHANGED <<i2c_bus, sensor_i2c_dev, screen_i2c_dev, ret, nextHandle,
                   calls, hwlog, retlog, bme280_device_handle,
                   ssd1306_device_handle>>
    /\ UNCHANGED <<wifiVars, sntpVars, taskVars, mpc, halted, lastPublished,
                   screen, wifiHist, bootlog>>

-----------------------------------------------------------------------------
(* main.c, app_main: the bootstrap                                         *)

\* ESP_ERROR_CHECK(<call>) at position from: on ESP_OK go on to position to,
\* otherwise abort.
Checked(from, to, ok) ==
    /\ mpc = from
    /\ IF ok THEN mpc' = to /\ UNCHANGED halted
             ELSE halted' = TRUE /\ UNCHANGED mpc

\* app_main calls i2c_shared_init(&bme280_device_handle, &ssd1306_device_handle).
AppInitCall ==
    /\ ~halted
    /\ mpc = "app_main"
    /\ I2cCall
    /\ mpc' = "init_wait"
    /\ UNCHANGED <<wifiVars, sntpVars, taskVars, halted, lastPublished, screen,
                   wifiHist, bootlog>>

\* Slip: the value i2c_shared_init returned is not checked.
AppInitCheck_Unchecked ==
    /\ ~halted
    /\ ipc = "ret"
    /\ mpc = "init_wait"
    /\ mpc' = "nvs_init"
    /\ ipc' = "idle"
    /\ UNCHANGED <<i2c_bus, sensor_i2c_dev, screen_i2c_dev, ret, nextHandle,
                   calls, hwlog, retlog, bme280_device_handle,
                   ssd1306_device_handle, halted>>
    /\ bootlog' = IF ret = "ESP_OK" THEN Append(bootlog, "i2c_shared_init")
                                     ELSE bootlog
    /\ UNCHANGED <<wifiVars, sntpVars, taskVars, lastPublished, screen, wifiHist>>

\* ESP_ERROR_CHECK(i2c_shared_init(...)) on the value the call returned.
AppInitCheck ==
    /\ ~halted
    /\ ipc = "ret"
    /\ Checked("init_wait", "nvs_init", ret = "ESP_OK")
    /\ ipc' = "idle"
    /\ UNCHANGED <<i2c_bus, sensor_i2c_dev, screen_i2c_dev, ret, nextHandle,
                   calls, hwlog, retlog, bme280_device_handle,
                   ssd1306_device_handle>>
    /\ bootlog' = IF ret = "ESP_OK" THEN Append(bootlog, "i2c_shared_init")
                                     ELSE bootlog
    /\ UNCHANGED <<wifiVars, sntpVars, taskVars, lastPublished, screen, wifiHist>>

-----------------------------------------------------------------------------
(* wifi.c                                                                  *)

NvsResults == {"ESP_OK", "ESP_ERR_NVS_NO_FREE_PAGES",
               "ESP_ERR_NVS_NEW_VERSION_FOUND", "ESP_FAIL"}

NvsLog(op, r) == nvslog' = Append(nvslog, [op |-> op, r |-> r])

\* esp_err_t err = nvs_flash_init(); if (err == NO_FREE_PAGES || err == NEW_VERSION_FOUND)
WifiNvsInit ==
    /\ mpc = "nvs_init"
    /\ \E r \in NvsResults :
        /\ err' = r
        /\ NvsLog("init", r)
        /\ mpc' = IF r \in {"ESP_ERR_NVS_NO_FREE_PAGES",
                            "ESP_ERR_NVS_NEW_VERSION_FOUND"}
                    THEN "nvs_erase" ELSE "netif_init"
    /\ UNCHANGED <<s_ip_ready, registered, wifiSt, evq, connects, halted>>

\* ESP_ERROR_CHECK(nvs_flash_erase());
WifiNvsErase ==
    /\ \E ok \in BOOLEAN :
        /\ Checked("nvs_erase", "nvs_reinit", ok)
        /\ NvsLog("erase", IF ok THEN "ESP_OK" ELSE "ESP_FAIL")
    /\ UNCHANGED <<err, s_ip_ready, registered, wifiSt, evq, connects>>

\* ESP_ERROR_CHECK(nvs_flash_init());
WifiNvsReinit ==
    /\ \E r \in NvsResults :
        /\ Checked("nvs_reinit", "netif_init", r = "ESP_OK")
        /\ NvsLog("init", r)
    /\ UNCHANGED <<err, s_ip_ready, registered, wifiSt, evq, connects>>

\* ESP_ERROR_CHECK(esp_netif_init());
WifiNetifInit ==
    /\ \E ok \in BOOLEAN : Checked("netif_init", "event_loop", ok)
    /\ UNCHANGED wifiVars

\* ESP_ERROR_CHECK(esp_event_loop_create_default()); esp_netif_create_default_wifi_sta();
WifiEventLoop ==
    /\ \E ok \in BOOLEAN : Checked("event_loop", "wifi_init", ok)
    /\ UNCHANGED wifiVars

\* ESP_ERROR_CHECK(esp_wifi_init(&cfg)); then wifi_config is filled in.
WifiDriverInit ==
    /\ \E ok \in BOOLEAN : Checked("wifi_init", "sem_create", ok)
    /\ UNCHANGED wifiVars

\* Slip: the semaphore is not created here, before the handlers are
\* registered.
WifiSemCreate_Deferred ==
    /\ \E ok \in BOOLEAN : Checked("sem_create", "reg_wifi", ok)
    /\ UNCHANGED <<err, s_ip_ready, registered, wifiSt, evq, connects, nvslog>>

\* s_ip_ready = xSemaphoreCreateBinary(); ESP_ERROR_CHECK(s_ip_ready ? ESP_OK : ESP_ERR_NO_MEM);
WifiSemCreate ==
    /\ \E ok \in BOOLEAN :
        /\ Checked("sem_create", "reg_wifi", ok)
        /\ s_ip_ready' = IF ok THEN "empty" ELSE "null"
    /\ UNCHANGED <<err, registered, wifiSt, evq, connects, nvslog>>

\* ESP_ERROR_CHECK(esp_event_handler_register(WIFI_EVENT, ESP_EVENT_ANY_ID, ...));
WifiRegWifi ==
    /\ \E ok \in BOOLEAN :
        /\ Checked("reg_wifi", "reg_ip", ok)
        /\ registered' = IF ok THEN registered \cup {"WIFI_EVENT"} ELSE registered
    /\ UNCHANGED <<err, s_ip_ready, wifiSt, evq, connects, nvslog>>

\* ESP_ERROR_CHECK(esp_event_handler_register(IP_EVENT, IP_EVENT_STA_GOT_IP, ...));
WifiRegIp ==
    /\ \E ok \in BOOLEAN :
        /\ Checked("reg_ip", "set_mode", ok)
        /\ registered' = IF ok THEN registered \cup {"IP_EVENT"} ELSE registered
    /\ UNCHANGED <<err, s_ip_ready, wifiSt, evq, connects, nvslog>>

\* ESP_ERROR_CHECK(esp_wifi_set_mode(WIFI_MODE_STA));
WifiSetMode ==
    /\ \E ok \in BOOLEAN : Checked("set_mode", "set_config", ok)
    /\ UNCHANGED wifiVars

\* ESP_ERROR_CHECK(esp_wifi_set_config(WIFI_IF_STA, &wifi_config));
WifiSetConfig ==
    /\ \E ok \in BOOLEAN : Checked("set_config", "wifi_start", ok)
    /\ UNCHANGED wifiVars

\* ESP_ERROR_CHECK(esp_wifi_start()); the driver posts WIFI_EVENT_STA_START.
WifiStart ==
    /\ \E ok \in BOOLEAN :
        /\ Checked("wifi_start", "wait_ip", ok)
        /\ IF ok THEN /\ wifiSt' = "idle"
                      /\ evq' = Append(evq, "WIFI_EVENT_STA_START")
                 ELSE UNCHANGED <<wifiSt, evq>>
    /\ UNCHANGED <<err, s_ip_ready, registered, connects, nvslog>>

\* Slip: the take does not wait and its result is not checked.
WifiWaitIp_NoWait ==
    /\ mpc = "wait_ip"
    /\ s_ip_ready' = "empty"
    /\ mpc' = "sntp_start"
    /\ err' = "none"
    /\ nvslog' = <<>>
    /\ connectsAtReturn' = connects
    /\ bootlog' = Append(bootlog, "wifi_init_sta")
    /\ UNCHANGED <<registered, wifiSt, evq, connects, halted>>

\* ESP_ERROR_CHECK(xSemaphoreTake(s_ip_ready, portMAX_DELAY) == pdTRUE ? ...);
\* the take blocks until the semaphore has been given; wifi_init_sta returns
\* (its local err and the history of its nvs calls end with the call).
WifiWaitIp ==
    /\ mpc = "wait_ip"
    /\ s_ip_ready = "given"
    /\ s_ip_ready' = "empty"
    /\ mpc' = "sntp_start"
    /\ err' = "none"
    /\ nvslog' = <<>>
    /\ connectsAtReturn' = connects
    /\ bootlog' = Append(bootlog, "wifi_init_sta")
    /\ UNCHANGED <<registered, wifiSt, evq, connects, halted>>

WifiStep(A) ==
    /\ ~halted
    /\ A
    /\ UNCHANGED <<regVars, sntpVars, taskVars, lastPublished, screen, ipHandled>>

\* The steps of wifi_init_sta before it returns.
WifiInner(A) == WifiStep(A /\ UNCHANGED <<connectsAtReturn, bootlog>>)

wifi_init_sta ==
    \/ WifiInner(WifiNvsInit)
    \/ WifiInner(WifiNvsErase)
    \/ WifiInner(WifiNvsReinit)
    \/ WifiInner(WifiNetifInit)
    \/ WifiInner(WifiEventLoop)
    \/ WifiInner(WifiDriverInit)
    \/ WifiInner(WifiSemCreate)
    \/ WifiInner(WifiRegWifi)
    \/ WifiInner(WifiRegIp)
    \/ WifiInner(WifiSetMode)
    \/ WifiInner(WifiSetConfig)
    \/ WifiInner(WifiStart)
    \/ WifiStep(WifiWaitIp)

EventBase(e) == IF e = "IP_EVENT_STA_GOT_IP" THEN "IP_EVENT" ELSE "WIFI_EVENT"

\* esp_wifi_connect(): the driver starts a connection attempt.
esp_wifi_connect ==
    /\ wifiSt' = "connecting"
    /\ connects' = connects + 1

\* Slip: only the start event connects; a disconnect is logged and left.
wifi_event_handler_NoRetry(e) ==
    IF e = "WIFI_EVENT_STA_START" THEN
        esp_wifi_connect /\ UNCHANGED s_ip_ready
    ELSE IF e = "IP_EVENT_STA_GOT_IP" THEN
        /\ s_ip_ready' = IF s_ip_ready # "null" THEN "given" ELSE s_ip_ready
        /\ UNCHANGED <<wifiSt, connects>>
    ELSE UNCHANGED <<s_ip_ready, wifiSt, connects>>

\* wifi_event_handler(arg, event_base, event_id, event_data)
wifi_event_handler(e) ==
    IF e = "WIFI_EVENT_STA_START" THEN
        esp_wifi_connect /\ UNCHANGED s_ip_ready
    ELSE IF e = "WIFI_EVENT_STA_DISCONNECTED" THEN
        esp_wifi_connect /\ UNCHANGED s_ip_ready
    ELSE IF e = "IP_EVENT_STA_GOT_IP" THEN
        /\ s_ip_ready' = IF s_ip_ready # "null" THEN "given" ELSE s_ip_ready
        /\ UNCHANGED <<wifiSt, connects>>
    ELSE UNCHANGED <<s_ip_ready, wifiSt, connects>>

\* The event loop task takes the oldest event and runs the handlers
\* registered for it.
EventDispatch ==
    /\ ~halted
    /\ evq # <<>>
    /\ evq' = Tail(evq)
    /\ IF EventBase(Head(evq)) \in registered
         THEN wifi_event_handler(Head(evq))
         ELSE UNCHANGED <<s_ip_ready, wifiSt, connects>>
    /\ ipHandled' = (ipHandled \/ (/\ Head(evq) = "IP_EVENT_STA_GOT_IP"
                                    /\ EventBase(Head(evq)) \in registered))
    /\ UNCHANGED <<err, registered, nvslog>>
    /\ UNCHANGED <<regVars, sntpVars, taskVars, mpc, halted, lastPublished,
                   screen, connectsAtReturn, bootlog>>

\* The Wi-Fi driver and the network: a connection attempt fails, or succeeds
\* and an address is obtained, or an established link is lost.
WifiConnectFails ==
    /\ ~halted
    /\ wifiSt = "connecting"
    /\ connects < MaxConnects
    /\ wifiSt' = "idle"
    /\ evq' = Append(evq, "WIFI_EVENT_STA_DISCONNECTED")
    /\ UNCHANGED <<err, s_ip_ready, registered, connects, nvslog>>
    /\ UNCHANGED <<regVars, sntpVars, taskVars, mpc, halted, lastPublished,
                   screen, wifiHist, bootlog>>

WifiGotIp ==
    /\ ~halted
    /\ wifiSt = "connecting"
    /\ wifiSt' = "got_ip"
    /\ evq' = Append(evq, "IP_EVENT_STA_GOT_IP")
    /\ UNCHANGED <<err, s_ip_ready, registered, connects, nvslog>>
    /\ UNCHANGED <<regVars, sntpVars, taskVars, mpc, halted, lastPublished,
                   screen, wifiHist, bootlog>>

WifiLinkLost ==
    /\ ~halted
    /\ wifiSt = "got_ip"
    /\ connects < MaxConnects
    /\ wifiSt' = "idle"
    /\ evq' = Append(evq, "WIFI_EVENT_STA_DISCONNECTED")
    /\ UNCHANGED <<err, s_ip_ready, registered, connects, nvslog>>
    /\ UNCHANGED <<regVars, sntpVars, taskVars, mpc, halted, lastPublished,
                   screen, wifiHist, bootlog>>

-----------------------------------------------------------------------------
(* sntp.c                                                                  *)

\* sntp_start: ESP_ERROR_CHECK(esp_netif_sntp_init(&config)); then init_sntp
\* sets TZ and calls wait_for_time_blocking(10000).
sntp_start ==
    /\ \E ok \in BOOLEAN : Checked("sntp_start", "sync_wait", ok)
    /\ UNCHANGED sntpVars

\* esp_err_t r = esp_netif_sntp_sync_wait(...); if (r == ESP_OK) { log; return; }
SntpSyncWait ==
    /\ mpc = "sync_wait"
    /\ \E r \in {"ESP_OK", "ESP_ERR_TIMEOUT"} :
        IF r = "ESP_OK"
          THEN /\ timeLog' = "synced"
               /\ mpc' = "sntp_ret"
               /\ UNCHANGED retry
          ELSE /\ retry' = 0
               /\ mpc' = "poll"
               /\ UNCHANGED timeLog
    /\ UNCHANGED <<tm_year, polls, halted>>

\* Slip: the loop condition is retry <= 10.
SntpPoll_OneMore ==
    /\ mpc = "poll"
    /\ IF retry <= FallbackRetries
         THEN \E y \in ClockYears :
                /\ tm_year' = y - TmYearBase
                /\ polls' = polls + 1
                /\ IF tm_year' > ValidYear - TmYearBase
                     THEN timeLog' = "fallback" /\ mpc' = "sntp_ret"
                     ELSE mpc' = "poll_delay" /\ UNCHANGED timeLog
         ELSE /\ timeLog' = "warning"
              /\ mpc' = "sntp_ret"
              /\ UNCHANGED <<tm_year, polls>>
    /\ UNCHANGED <<retry, halted>>

\* for (retry = 0; retry < 10; ++retry) { time(&now); localtime_r(&now, &ti);
\*   if (ti.tm_year > (2016 - 1900)) { log; return; } ... }  log warning.
SntpPoll ==
    /\ mpc = "poll"
    /\ IF retry < FallbackRetries
         THEN \E y \in ClockYears :
                /\ tm_year' = y - TmYearBase
                /\ polls' = polls + 1
                /\ IF tm_year' > ValidYear - TmYearBase
                     THEN timeLog' = "fallback" /\ mpc' = "sntp_ret"
                     ELSE mpc' = "poll_delay" /\ UNCHANGED timeLog
         ELSE /\ timeLog' = "warning"
              /\ mpc' = "sntp_ret"
              /\ UNCHANGED <<tm_year, polls>>
    /\ UNCHANGED <<retry, halted>>

\* vTaskDelay(pdMS_TO_TICKS(500)); ++retry
SntpPollDelay ==
    /\ mpc = "poll_delay"
    /\ retry' = retry + 1
    /\ mpc' = "poll"
    /\ UNCHANGED <<tm_year, polls, timeLog, halted>>

\* wait_for_time_blocking has returned to init_sntp, which returns to
\* app_main (the local retry and the history of the wait end with the call).
SntpReturn ==
    /\ mpc = "sntp_ret"
    /\ mpc' = "mutex_create"
    /\ retry' = 0
    /\ tm_year' = 0
    /\ polls' = 0
    /\ timeLog' = "none"
    /\ bootlog' = Append(bootlog, "init_sntp")
    /\ UNCHANGED halted

SntpStep(A) ==
    /\ ~halted
    /\ A
    /\ UNCHANGED <<regVars, wifiVars, taskVars, lastPublished, screen, wifiHist>>

init_sntp ==
    \/ SntpStep(sntp_start /\ UNCHANGED bootlog)
    \/ SntpStep(SntpSyncWait /\ UNCHANGED bootlog)
    \/ SntpStep(SntpPoll /\ UNCHANGED bootlog)
    \/ SntpStep(SntpPollDelay /\ UNCHANGED bootlog)
    \/ SntpStep(SntpReturn)

-----------------------------------------------------------------------------
(* main.c: the measurement record, app_main's last steps and the two tasks *)

\* struct bme280_data.  The fields are doubles in the code; the model keeps
\* them in the unit of the last digit print_data prints: temperature in
\* 0.1 degC, pressure in Pa (0.01 hPa), humidity in 0.1 %.
Record(t, p, h) == [temperature |-> t, pressure |-> p, humidity |-> h]

\* static struct bme280_data bme280_device_data = {0};
ZeroRecord == Record(0, 0, 0)

\* What a successful bme_forced_read_once may deliver.
Readings == {Record(213, 101325, 450), Record(198, 99805, 521)}

\* struct bme280_data tmp; is not initialised: it holds whatever the stack held.
UninitRecords == {ZeroRecord, Record(7, 31, 9)}

Digits2(n) == IF n < 10 THEN "0" \o ToString(n) ELSE ToString(n)

\* snprintf(temperature_str, ..., "Temp-%.1fC", bme280_device_data.temperature)
FmtTemperature(t) == "Temp-" \o ToString(t \div 10) \o "." \o ToString(t % 10) \o "C"
\* snprintf(pressure_str, ..., "Pres-%.2fhPa", bme280_device_data.pressure / 100.0)
FmtPressure(p) == "Pres-" \o ToString(p \div 100) \o "." \o Digits2(p % 100) \o "hPa"
\* snprintf(humidity_str, ..., "Hum-%.1f%%", bme280_device_data.humidity)
FmtHumidity(h) == "Hum-" \o ToString(h \div 10) \o "." \o ToString(h % 10) \o "%"

\* The three strings print_data would make of record r.
Strings(r) == <<FmtTemperature(r.temperature), FmtPressure(r.pressure),
                FmtHumidity(r.humidity)>>

\* Slip: the take does not wait (a zero timeout whose result is not checked).
xSemaphoreTake_NoWait(task) ==
    s_bme_lock' = IF s_bme_lock = "free" THEN task ELSE s_bme_lock

\* xSemaphoreTake(s_bme_lock, portMAX_DELAY): blocks until the mutex is free.
xSemaphoreTake(task) ==
    /\ s_bme_lock = "free"
    /\ s_bme_lock' = task

\* xSemaphoreGive(s_bme_lock)
xSemaphoreGive == s_bme_lock' = "free"

\* s_bme_lock = xSemaphoreCreateMutex(); configASSERT(s_bme_lock);
AppMutexCreate ==
    /\ \E ok \in BOOLEAN :
        /\ Checked("mutex_create", "task_create", ok)
        /\ s_bme_lock' = IF ok THEN "free" ELSE "null"
        /\ bootlog' = IF ok THEN Append(bootlog, "xSemaphoreCreateMutex")
                             ELSE bootlog
    /\ UNCHANGED <<bme280_device_data, tmp, spc, temperature_str, pressure_str,
                   humidity_str, published, lastRead, flushFailed, snapPrev, dirty>>

\* xTaskCreatePinnedToCore(sensor_task, ...): the result is not looked at;
\* when the task cannot be created, sensor_task never runs.
AppTaskCreate ==
    /\ mpc = "task_create"
    /\ \E ok \in BOOLEAN :
        /\ spc' = IF ok THEN "s_read" ELSE "none"
        /\ bootlog' = IF ok THEN Append(bootlog, "xTaskCreatePinnedToCore")
                             ELSE bootlog
    /\ mpc' = "clear"
    /\ UNCHANGED <<s_bme_lock, bme280_device_data, tmp, temperature_str,
                   pressure_str, humidity_str, published, lastRead, flushFailed,
                   snapPrev, dirty, halted>>

AppStep(A) ==
    /\ ~halted
    /\ A
    /\ UNCHANGED <<regVars, wifiVars, sntpVars, lastPublished, screen, wifiHist>>

app_main ==
    \/ AppStep(AppMutexCreate)
    \/ AppStep(AppTaskCreate)

\* print_data: ssd1306_clear_screen(&ssd1306_device_handle); before the loop.
RenderClear ==
    /\ mpc = "clear"
    /\ screen' = ssd1306_clear_screen
    /\ bootlog' = Append(bootlog, "print_data")
    /\ mpc' = "r_time"
    /\ UNCHANGED taskVars

\* time(&now); localtime_r; the time and date lines are drawn, at
\* (WIDTH / 2) - (8 * 8 / 2) and (WIDTH / 2) - (8 * 10 / 2).
RenderTime ==
    /\ mpc = "r_time"
    /\ screen' = ssd1306_draw_string(
                     ssd1306_draw_string(screen, "time", 0 - ((8 * 8) \div 2),
                                         "HH:MM:SS"),
                     "date", 0 - ((8 * 10) \div 2), "YYYY-MM-DD")
    /\ mpc' = "r_take"
    /\ UNCHANGED <<taskVars, bootlog>>

\* Slip: print_data reads the record without taking the mutex.
RenderTake_Missing ==
    /\ mpc = "r_take"
    /\ mpc' = "r_temp"
    /\ UNCHANGED <<s_bme_lock, bme280_device_data, tmp, spc, temperature_str,
                   pressure_str, humidity_str, published, lastRead, flushFailed,
                   snapPrev, dirty>>

\* xSemaphoreTake(s_bme_lock, portMAX_DELAY);
RenderTake ==
    /\ mpc = "r_take"
    /\ xSemaphoreTake("main")
    /\ mpc' = "r_temp"
    /\ UNCHANGED <<bme280_device_data, tmp, spc, temperature_str, pressure_str,
                   humidity_str, published, lastRead, flushFailed, snapPrev, dirty>>

RenderReadTemperature ==
    /\ mpc = "r_temp"
    /\ temperature_str' = FmtTemperature(bme280_device_data.temperature)
    /\ mpc' = "r_pres"
    /\ UNCHANGED <<s_bme_lock, bme280_device_data, tmp, spc, pressure_str,
                   humidity_str, published, lastRead, flushFailed, snapPrev, dirty>>

\* Slip: the pressure is scaled to hPa in place before it is printed.
RenderReadPressure_ScalesInPlace ==
    /\ mpc = "r_pres"
    /\ bme280_device_data' =
          [bme280_device_data EXCEPT !.pressure = bme280_device_data.pressure \div 100]
    /\ pressure_str' = FmtPressure(bme280_device_data.pressure)
    /\ mpc' = "r_hum"
    /\ UNCHANGED <<s_bme_lock, tmp, spc, temperature_str,
                   humidity_str, published, lastRead, flushFailed, snapPrev, dirty>>

RenderReadPressure ==
    /\ mpc = "r_pres"
    /\ pressure_str' = FmtPressure(bme280_device_data.pressure)
    /\ mpc' = "r_hum"
    /\ UNCHANGED <<s_bme_lock, bme280_device_data, tmp, spc, temperature_str,
                   humidity_str, published, lastRead, flushFailed, snapPrev, dirty>>

RenderReadHumidity ==
    /\ mpc = "r_hum"
    /\ humidity_str' = FmtHumidity(bme280_device_data.humidity)
    /\ mpc' = "r_give"
    /\ UNCHANGED <<s_bme_lock, bme280_device_data, tmp, spc, temperature_str,
                   pressure_str, published, lastRead, flushFailed, snapPrev, dirty>>

\* Slip: print_data does not give the mutex back after its reads.
RenderGive_Missing ==
    /\ mpc = "r_give"
    /\ snapPrev' = <<temperature_str, pressure_str, humidity_str>>
    /\ dirty' = FALSE
    /\ mpc' = "r_draw"
    /\ UNCHANGED <<s_bme_lock, bme280_device_data, tmp, spc, temperature_str,
                   pressure_str, humidity_str, published, lastRead, flushFailed>>

\* xSemaphoreGive(s_bme_lock); the snapshot is complete.
RenderGive ==
    /\ mpc = "r_give"
    /\ xSemaphoreGive
    /\ snapPrev' = <<temperature_str, pressure_str, humidity_str>>
    /\ dirty' = FALSE
    /\ mpc' = "r_draw"
    /\ UNCHANGED <<bme280_device_data, tmp, spc, temperature_str, pressure_str,
                   humidity_str, published, lastRead, flushFailed>>

\* The humidity, temperature and pressure lines are drawn.
RenderDraw ==
    /\ mpc = "r_draw"
    /\ screen' = ssd1306_draw_string(
                     ssd1306_draw_string(
                        ssd1306_draw_string(screen, "hum", Centered(humidity_str),
                                            humidity_str),
                        "temp", Centered(temperature_str), temperature_str),
                     "pres", Centered(pressure_str), pressure_str)
    /\ mpc' = "r_flush"
    /\ UNCHANGED <<taskVars, bootlog>>

\* Slip: the result of ssd1306_update is not checked.
RenderFlush_Unchecked ==
    /\ mpc = "r_flush"
    /\ \E ok \in BOOLEAN : flushFailed' = ~ok
    /\ mpc' = "r_delay"
    /\ UNCHANGED <<s_bme_lock, bme280_device_data, tmp, spc, temperature_str,
                   pressure_str, humidity_str, published, lastRead, snapPrev,
                   dirty, halted>>

\* ESP_ERROR_CHECK(ssd1306_update(&ssd1306_device_handle));
RenderFlush ==
    /\ \E ok \in BOOLEAN :
        /\ Checked("r_flush", "r_delay", ok)
        /\ flushFailed' = ~ok
    /\ UNCHANGED <<s_bme_lock, bme280_device_data, tmp, spc, temperature_str,
                   pressure_str, humidity_str, published, lastRead, snapPrev,
                   dirty>>

\* vTaskDelay(pdMS_TO_TICKS(1000));
RenderDelay ==
    /\ mpc = "r_delay"
    /\ mpc' = "r_time"
    /\ UNCHANGED taskVars

RenderStep(A) ==
    /\ ~halted
    /\ A
    /\ UNCHANGED <<regVars, wifiVars, sntpVars, lastPublished, wifiHist>>

print_data ==
    \/ RenderStep(RenderClear /\ UNCHANGED halted)
    \/ RenderStep(RenderTime /\ UNCHANGED halted)
    \/ RenderStep(RenderTake /\ UNCHANGED <<halted, screen, bootlog>>)
    \/ RenderStep(RenderReadTemperature /\ UNCHANGED <<halted, screen, bootlog>>)
    \/ RenderStep(RenderReadPressure /\ UNCHANGED <<halted, screen, bootlog>>)
    \/ RenderStep(RenderReadHumidity /\ UNCHANGED <<halted, screen, bootlog>>)
    \/ RenderStep(RenderGive /\ UNCHANGED <<halted, screen, bootlog>>)
    \/ RenderStep(RenderDraw /\ UNCHANGED halted)
    \/ RenderStep(RenderFlush /\ UNCHANGED <<screen, bootlog>>)
    \/ RenderStep(RenderDelay /\ UNCHANGED <<halted, screen, bootlog>>)

\* bme_forced_read_once(&bme280_device_handle, &tmp); its result is not
\* looked at.  A successful read fills tmp; a failed one leaves tmp as it was.
SensorRead ==
    /\ spc = "s_read"
    /\ \/ \E r \in Readings : tmp' = r /\ lastRead' = "ok"
       \/ tmp' = tmp /\ lastRead' = "fail"
    /\ spc' = "s_take"
    /\ UNCHANGED <<s_bme_lock, bme280_device_data, temperature_str, pressure_str,
                   humidity_str, published, flushFailed, snapPrev, dirty>>

\* Slip: sensor_task copies without taking the mutex.
SensorTake_Missing ==
    /\ spc = "s_take"
    /\ spc' = "s_copy_t"
    /\ UNCHANGED <<s_bme_lock, bme280_device_data, tmp, temperature_str,
                   pressure_str, humidity_str, published, lastRead, flushFailed,
                   snapPrev, dirty>>

\* xSemaphoreTake(s_bme_lock, portMAX_DELAY);
SensorTake ==
    /\ spc = "s_take"
    /\ xSemaphoreTake("sensor")
    /\ spc' = "s_copy_t"
    /\ UNCHANGED <<bme280_device_data, tmp, temperature_str, pressure_str,
                   humidity_str, published, lastRead, flushFailed, snapPrev, dirty>>

\* bme280_device_data = tmp; the structure is copied one member at a time.
SensorCopy(at, field, to) ==
    /\ spc = at
    /\ bme280_device_data' = [bme280_device_data EXCEPT ![field] = tmp[field]]
    /\ dirty' = TRUE
    /\ spc' = to
    /\ UNCHANGED <<s_bme_lock, tmp, temperature_str, pressure_str, humidity_str,
                   published, lastRead, flushFailed, snapPrev>>

\* Slip: sensor_task does not give the mutex back after the copy.
SensorGive_Missing ==
    /\ spc = "s_give"
    /\ published' = published \cup {tmp}
    /\ lastPublished' = tmp
    /\ spc' = "s_delay"
    /\ UNCHANGED <<s_bme_lock, bme280_device_data, tmp, temperature_str,
                   pressure_str, humidity_str, lastRead, flushFailed, snapPrev,
                   dirty>>

\* xSemaphoreGive(s_bme_lock); the publish of tmp is complete.
SensorGive ==
    /\ spc = "s_give"
    /\ xSemaphoreGive
    /\ published' = published \cup {tmp}
    /\ lastPublished' = tmp
    /\ spc' = "s_delay"
    /\ UNCHANGED <<bme280_device_data, tmp, temperature_str, pressure_str,
                   humidity_str, lastRead, flushFailed, snapPrev, dirty>>

\* vTaskDelay(pdMS_TO_TICKS(2500));
SensorDelay ==
    /\ spc = "s_delay"
    /\ spc' = "s_read"
    /\ UNCHANGED <<s_bme_lock, bme280_device_data, tmp, temperature_str,
                   pressure_str, humidity_str, published, lastRead, flushFailed,
                   snapPrev, dirty>>

SensorStep(A) ==
    /\ ~halted
    /\ A
    /\ UNCHANGED <<regVars, wifiVars, sntpVars, mpc, halted, screen, wifiHist,
                   bootlog>>

sensor_task ==
    \/ SensorStep(SensorRead /\ UNCHANGED lastPublished)
    \/ SensorStep(SensorTake /\ UNCHANGED lastPublished)
    \/ SensorStep(SensorCopy("s_copy_t", "temperature", "s_copy_p")
                  /\ UNCHANGED lastPublished)
    \/ SensorStep(SensorCopy("s_copy_p", "pressure", "s_copy_h")
                  /\ UNCHANGED lastPublished)
    \/ SensorStep(SensorCopy("s_copy_h", "humidity", "s_give")
                  /\ UNCHANGED lastPublished)
    \/ SensorStep(SensorGive)
    \/ SensorStep(SensorDelay /\ UNCHANGED lastPublished)

-----------------------------------------------------------------------------
(* The specifications                                                      *)

InitCommon ==
    /\ i2c_bus = NULL
    /\ sensor_i2c_dev = NULL
    /\ screen_i2c_dev = NULL
    /\ ipc = "idle"
    /\ ret = "none"
    /\ nextHandle = 1
    /\ calls = 0
    /\ hwlog = <<>>
    /\ retlog = <<>>
    /\ bme280_device_handle = NULL
    /\ ssd1306_device_handle = NULL
    /\ halted = FALSE
    /\ s_bme_lock = "null"
    /\ bme280_device_data = ZeroRecord
    /\ tmp \in UninitRecords
    /\ spc = "none"
    /\ temperature_str = ""
    /\ pressure_str = ""
    /\ humidity_str = ""
    /\ err = "none"
    /\ s_ip_ready = "null"
    /\ registered = {}
    /\ wifiSt = "off"
    /\ evq = <<>>
    /\ connects = 0
    /\ nvslog = <<>>
    /\ retry = 0
    /\ tm_year = 0
    /\ polls = 0
    /\ timeLog = "none"
    /\ published = {}
    /\ lastRead = "none"
    /\ flushFailed = FALSE
    /\ snapPrev = <<>>
    /\ dirty = FALSE
    /\ lastPublished = ZeroRecord
    /\ screen = ssd1306_clear_screen
    /\ ipHandled = FALSE
    /\ connectsAtReturn = 0
    /\ bootlog = <<>>

\* The firmware: app_main runs from power-on.
Init == InitCommon /\ mpc = "app_main"

Next ==
    \/ AppInitCall
    \/ AppInitCheck
    \/ i2c_shared_init
    \/ wifi_init_sta
    \/ EventDispatch
    \/ WifiConnectFails
    \/ WifiGotIp
    \/ WifiLinkLost
    \/ init_sntp
    \/ app_main
    \/ print_data
    \/ sensor_task

Spec == Init /\ [][Next]_vars

\* The bus registry alone, under a caller that calls i2c_shared_init
\* MaxCalls times.
InitRegistry == InitCommon /\ mpc = "registry_caller"

NextRegistry == RegistryCall \/ RegistryReturn \/ i2c_shared_init

SpecRegistry == InitRegistry /\ [][NextRegistry]_vars

\* The firmware under a scheduler that lets the main task run: the waits
\* inside init_sntp (esp_netif_sntp_sync_wait with its timeout, vTaskDelay)
\* end after a finite time.
SpecFair == Spec /\ WF_vars(init_sntp)

\* The firmware under a scheduler that lets the main task run inside
\* wifi_init_sta: each driver call returns, and the take of s_ip_ready
\* returns once the semaphore has been given.
SpecJoin == Spec /\ WF_vars(wifi_init_sta)

\* The state in which init_sntp has just returned to app_main, after a
\* bootstrap in which every call succeeded at the first attempt.
InitTasks ==
    /\ i2c_bus = 1
    /\ screen_i2c_dev = 2
    /\ sensor_i2c_dev = 3
    /\ ipc = "idle"
    /\ ret = "ESP_OK"
    /\ nextHandle = 4
    /\ calls = 1
    /\ hwlog = [i \in 1..7 |->
                  [call |-> 1, ok |-> TRUE,
                   op |-> <<"new_bus", "add_ssd", "add_bme", "sensor_cfg",
                            "probe", "ssd_init", "init_update">>[i]]]
    /\ retlog = <<[r |-> "ESP_OK", bus |-> 1, bme |-> 3, ssd |-> 2]>>
    /\ bme280_device_handle = 3
    /\ ssd1306_device_handle = 2
    /\ mpc = "mutex_create"
    /\ halted = FALSE
    /\ s_bme_lock = "null"
    /\ bme280_device_data = ZeroRecord
    /\ tmp \in UninitRecords
    /\ spc = "none"
    /\ temperature_str = ""
    /\ pressure_str = ""
    /\ humidity_str = ""
    /\ err = "none"
    /\ s_ip_ready = "empty"
    /\ registered = {"WIFI_EVENT", "IP_EVENT"}
    /\ wifiSt = "got_ip"
    /\ evq = <<>>
    /\ connects = 1
    /\ nvslog = <<>>
    /\ retry = 0
    /\ tm_year = 0
    /\ polls = 0
    /\ timeLog = "none"
    /\ published = {}
    /\ lastRead = "none"
    /\ flushFailed = FALSE
    /\ snapPrev = <<>>
    /\ dirty = FALSE
    /\ lastPublished = ZeroRecord
    /\ screen = ssd1306_draw_string(ssd1306_clear_screen, "init",
                                    0 - (((Len("Getting Data") + 1) \div 2) * 8),
                                    "Getting Data")
    /\ ipHandled = TRUE
    /\ connectsAtReturn = 1
    /\ bootlog = <<"i2c_shared_init", "wifi_init_sta", "init_sntp">>

\* The rest of app_main and the two tasks; the network keeps its link, and
\* the event loop task has nothing to handle.
NextTasks ==
    \/ app_main
    \/ print_data
    \/ sensor_task

\* The two tasks under a fair scheduler: a task that can take a step takes
\* it (the hardware calls and vTaskDelay end after a finite time), and a task
\* blocked in xSemaphoreTake gets the mutex when it is given again and
\* again: the holder sleeps for a second or more after each give, while the
\* waiter is made ready at the give.
SpecLive ==
    /\ InitTasks
    /\ [][NextTasks]_vars
    /\ WF_vars(app_main)
    /\ WF_vars(print_data)
    /\ WF_vars(sensor_task)
    /\ SF_vars(RenderStep(RenderTake /\ UNCHANGED <<halted, screen, bootlog>>))
    /\ SF_vars(SensorStep(SensorTake /\ UNCHANGED lastPublished))

-----------------------------------------------------------------------------
(* Properties                                                              *)

\* The successful hardware operations named op, as positions in hwlog.
OpsOf(op) == {i \in 1..Len(hwlog) : hwlog[i].op = op /\ hwlog[i].ok}
Created(op) == OpsOf(op) # {}
Failed(op) == \E i \in 1..Len(hwlog) : hwlog[i].op = op /\ ~hwlog[i].ok

\* The handles the accessors returned when call k returned.
Handles(k) == <<retlog[k].bus, retlog[k].bme, retlog[k].ssd>>

\* The calls in which i2c_new_master_bus succeeded.
BusCalls == {hwlog[i].call : i \in OpsOf("new_bus")}

\* The render task is between its take and its give; so is the sampling task.
RenderInCS == mpc \in {"r_temp", "r_pres", "r_hum", "r_give"}
SensorInCS == spc \in {"s_copy_t", "s_copy_p", "s_copy_h", "s_give"}

\* The strings of the snapshot print_data has read.
Snapshot == <<temperature_str, pressure_str, humidity_str>>
SnapshotRead == mpc \in {"r_give", "r_draw", "r_flush", "r_delay"}

\* C1: the three fields one snapshot reads all come from one record, the
\* initial zero record or the argument of one completed publish.
C1_SnapshotFromOnePublish ==
    SnapshotRead =>
        \E r \in published \cup {ZeroRecord} : Snapshot = Strings(r)

\* C1's case: a snapshot of a published reading, after two different records
\* have been published.
C1_Witness ==
    /\ SnapshotRead
    /\ Cardinality(published) >= 2
    /\ \E r \in Readings : Snapshot = Strings(r)

\* C2: the two tasks are never both between take and give, and a task that
\* reads or writes the record holds the mutex.
C2_MutualExclusion ==
    /\ ~(RenderInCS /\ SensorInCS)
    /\ RenderInCS => s_bme_lock = "main"
    /\ SensorInCS => s_bme_lock = "sensor"

\* C2's case: the render task waits at its take while the sampling task is
\* in the middle of its copy.
C2_Witness ==
    /\ mpc = "r_take"
    /\ spc = "s_copy_p"
    /\ s_bme_lock = "sensor"

\* C3 as stated: only the first call performs hardware operations, every later
\* call returns ESP_OK, and with the handles the first call left.
C3_OnlyFirstCallTouchesHardware ==
    /\ \A i \in 1..Len(hwlog) : hwlog[i].call = 1
    /\ \A k \in 2..Len(retlog) :
         retlog[k].r = "ESP_OK" /\ Handles(k) = Handles(1)

\* C3 amended: once a call has created the bus, no later call performs a
\* hardware operation, every later call returns ESP_OK with the handles that
\* call left, and the accessors keep returning them; the calls before it
\* only tried to create the bus, failed and returned an error.
C3_AfterBusCreatedCallsAreNoOps ==
    /\ Cardinality(BusCalls) <= 1
    /\ \A b \in BusCalls :
        /\ \A i \in 1..Len(hwlog) :
             /\ hwlog[i].call <= b
             /\ hwlog[i].call < b => hwlog[i].op = "new_bus" /\ ~hwlog[i].ok
        /\ \A k \in 1..Len(retlog) :
             /\ k < b => retlog[k].r = "ESP_FAIL" /\ Handles(k) = <<NULL, NULL, NULL>>
             /\ k > b => retlog[k].r = "ESP_OK" /\ Handles(k) = Handles(b)
        /\ Len(retlog) >= b =>
             <<i2c_get_bus, i2c_get_bme280, i2c_get_ssd1306>> = Handles(b)
    /\ BusCalls = {} =>
        /\ \A i \in 1..Len(hwlog) : hwlog[i].op = "new_bus"
        /\ \A k \in 1..Len(retlog) : retlog[k].r = "ESP_FAIL"

\* C3's case: the first call failed to create the bus, the second created it
\* and the third has returned.
C3_Witness ==
    /\ BusCalls = {2}
    /\ Len(retlog) = 3
    /\ retlog[3].r = "ESP_OK"

\* C4 as stated: a call that returns ESP_OK leaves the bus handle and both
\* device handles non-null, each device attached exactly once, after the bus
\* was created.
C4_OkMeansAllHandlesExist ==
    \A k \in 1..Len(retlog) :
        retlog[k].r = "ESP_OK" =>
            /\ retlog[k].bus # NULL
            /\ retlog[k].bme # NULL
            /\ retlog[k].ssd # NULL
            /\ Cardinality(OpsOf("add_ssd")) = 1
            /\ Cardinality(OpsOf("add_bme")) = 1
            /\ \A b \in OpsOf("new_bus") :
                 \A d \in OpsOf("add_ssd") \cup OpsOf("add_bme") : b < d

\* C5 as stated: the record changes only as the result of a successful read.
C5_StoreChangesOnlyOnSuccess ==
    [][bme280_device_data' # bme280_device_data => lastRead = "ok"]_vars

\* C6 as stated: the accessors return null as long as no call has returned.
C6_NullUntilInitReturns ==
    Len(retlog) = 0 =>
        /\ i2c_get_bus = NULL
        /\ i2c_get_bme280 = NULL
        /\ i2c_get_ssd1306 = NULL

\* C6 amended: each accessor returns null until its handle has been created
\* (so all three do before the first call starts); inside the call it returns
\* the handle as soon as the handle exists.
C6_NullUntilCreated ==
    /\ i2c_get_bus # NULL => Created("new_bus")
    /\ i2c_get_ssd1306 # NULL => Created("add_ssd")
    /\ i2c_get_bme280 # NULL => Created("add_bme")
    /\ calls = 0 =>
        /\ i2c_get_bus = NULL
        /\ i2c_get_bme280 = NULL
        /\ i2c_get_ssd1306 = NULL

\* C6's case: inside the first call, before it returns, init_sensor has got
\* the sensor's handle from i2c_get_bme280.
C6_Witness ==
    /\ Len(retlog) = 0
    /\ ipc = "probe"
    /\ bme280_device_handle # NULL
    /\ bme280_device_handle = i2c_get_bme280

\* C7: a snapshot taken with no write of the record since the previous
\* snapshot reads the same three strings, and no step of the render task
\* between its take and its give changes the record.
C7_SnapshotIdempotent ==
    /\ [](mpc = "r_give" /\ snapPrev # <<>> /\ ~dirty => Snapshot = snapPrev)
    /\ [][RenderInCS /\ mpc' # mpc => bme280_device_data' = bme280_device_data]_vars

\* C7's case: a second snapshot of a published reading with no publish since
\* the first.
C7_Witness ==
    /\ mpc = "r_give"
    /\ ~dirty
    /\ snapPrev \in {Strings(r) : r \in Readings}
    /\ Snapshot = snapPrev

\* C8: after a failed display probe the process is halted inside
\* i2c_shared_init: no network join, no time sync, no mutex, no task.
C8_ProbeFailureHalts ==
    Failed("probe") =>
        /\ halted
        /\ mpc = "init_wait"
        /\ ipc = "probe"
        /\ wifiSt = "off"
        /\ nvslog = <<>>
        /\ timeLog = "none"
        /\ s_bme_lock = "null"
        /\ spc = "none"

\* C8's case: the probe has failed, after the bus and both devices were set up.
C8_Witness ==
    /\ Failed("probe")
    /\ Created("add_bme")
    /\ halted

\* C9: after a failed flush in the render loop the process is halted at the
\* flush, and the render task does not hold the mutex.
C9_FlushFailureFatal ==
    flushFailed =>
        /\ halted
        /\ mpc = "r_flush"
        /\ s_bme_lock # "main"

\* C9's case: a flush has failed after a snapshot of a published record.
C9_Witness ==
    /\ flushFailed
    /\ published # {}
    /\ snapPrev # <<>>

\* C10: wait_for_time_blocking polls the clock at most 10 times, goes on
\* polling only after a poll that showed a year up to 2016, never aborts,
\* returns with "synced" (no poll), "fallback" (the last of 1..10 polls
\* showed a year after 2016) or the warning (exactly 10 polls, none valid),
\* and every wait that starts returns.
C10_WaitForTimeReturns ==
    /\ [](polls <= FallbackRetries)
    /\ [](mpc \in {"sync_wait", "poll", "poll_delay", "sntp_ret"} => ~halted)
    /\ [](mpc = "poll_delay" => tm_year + TmYearBase <= ValidYear)
    /\ [](mpc = "sntp_ret" =>
            \/ timeLog = "synced" /\ polls = 0
            \/ /\ timeLog = "fallback"
               /\ polls \in 1..FallbackRetries
               /\ tm_year + TmYearBase > ValidYear
            \/ /\ timeLog = "warning"
               /\ polls = FallbackRetries
               /\ tm_year + TmYearBase <= ValidYear)
    /\ (mpc = "sync_wait" ~> mpc = "sntp_ret")

\* C10's case: the wait has returned with the warning after 10 polls.
C10_Witness ==
    /\ mpc = "sntp_ret"
    /\ timeLog = "warning"
    /\ polls = FallbackRetries

-----------------------------------------------------------------------------
(* wifi_init_sta and the bootstrap order                                   *)

\* The positions of wifi_init_sta after its nvs_flash_* calls.
WifiAfterNvs == {"netif_init", "event_loop", "wifi_init", "sem_create",
                 "reg_wifi", "reg_ip", "set_mode", "set_config", "wifi_start",
                 "wait_ip"}

NvsCalls(op) == {i \in 1..Len(nvslog) : nvslog[i].op = op}

\* C11: the store is erased and initialised once more exactly when the first
\* nvs_flash_init reports no free pages or a new version, at most once; and
\* wifi_init_sta goes on to bring the network up only when the last
\* nvs_flash_init returned ESP_OK: after any other result the process halts.
C11_NoBringUpAfterFailedStoreInit ==
    /\ Cardinality(NvsCalls("erase")) <= 1
    /\ Cardinality(NvsCalls("init")) <= 2
    /\ NvsCalls("erase") # {} =>
          /\ nvslog[1].op = "init"
          /\ nvslog[1].r \in {"ESP_ERR_NVS_NO_FREE_PAGES",
                              "ESP_ERR_NVS_NEW_VERSION_FOUND"}
    /\ mpc \in WifiAfterNvs =>
          /\ nvslog # <<>>
          /\ nvslog[Len(nvslog)].op = "init"
          /\ nvslog[Len(nvslog)].r = "ESP_OK"

\* The positions of the main task after wifi_init_sta has returned.
SntpPositions == {"sntp_start", "sync_wait", "poll", "poll_delay", "sntp_ret"}
RenderPositions == {"clear", "r_time", "r_take", "r_temp", "r_pres", "r_hum",
                    "r_give", "r_draw", "r_flush", "r_delay"}
AfterWifi == SntpPositions \cup {"mutex_create", "task_create"} \cup RenderPositions

Done(step) == \E i \in 1..Len(bootlog) : bootlog[i] = step

\* C12: wifi_init_sta has returned, and time sync has started, only in
\* states in which wifi_event_handler has handled an IP_EVENT_STA_GOT_IP,
\* however many start and disconnect events were handled before.
C12_ReturnsOnlyAfterGotIp ==
    /\ mpc \in AfterWifi => ipHandled
    /\ Done("wifi_init_sta") => ipHandled
    /\ (polls > 0 \/ timeLog # "none") => ipHandled

\* wifi_init_sta has just returned after a start event and a disconnect
\* event had each triggered a connection attempt.
C12_Witness ==
    /\ mpc = "sntp_start"
    /\ Done("wifi_init_sta")
    /\ connectsAtReturn = 2
    /\ ipHandled

\* app_main's steps in the order of its statements; the sensor task may fail
\* to be created, and app_main goes on without it.
BootOrder == <<"i2c_shared_init", "wifi_init_sta", "init_sntp",
               "xSemaphoreCreateMutex", "xTaskCreatePinnedToCore", "print_data">>
BootOrderNoTask == <<"i2c_shared_init", "wifi_init_sta", "init_sntp",
                     "xSemaphoreCreateMutex", "print_data">>

IsPrefix(s, t) == Len(s) <= Len(t) /\ \A i \in 1..Len(s) : s[i] = t[i]

WifiStarted ==
    \/ mpc \in {"nvs_init", "nvs_erase", "nvs_reinit"} \cup WifiAfterNvs
    \/ nvslog # <<>>
    \/ s_ip_ready # "null"
    \/ registered # {}
    \/ wifiSt # "off"
    \/ connects > 0

SntpStarted == mpc \in SntpPositions \/ polls > 0 \/ timeLog # "none"

\* C13: the bootstrap steps complete in the order shared bus, network join,
\* time sync, lock creation, sensor task creation, render loop; the shared
\* bus initialisation has returned ESP_OK before the network join starts,
\* the join has returned before time sync starts, time sync has returned
\* before the lock exists, the lock exists before either task runs or takes
\* it, and once the render loop is entered app_main stays in it.
C13_BootstrapOrder ==
    /\ IsPrefix(bootlog, BootOrder) \/ IsPrefix(bootlog, BootOrderNoTask)
    /\ Done("i2c_shared_init") =>
          /\ ipc = "idle"
          /\ retlog # <<>>
          /\ retlog[Len(retlog)].r = "ESP_OK"
    /\ WifiStarted => Done("i2c_shared_init")
    /\ SntpStarted => Done("wifi_init_sta")
    /\ s_bme_lock # "null" <=> Done("xSemaphoreCreateMutex")
    /\ Done("xSemaphoreCreateMutex") => Done("init_sntp") /\ ~SntpStarted
    /\ spc # "none" <=> Done("xTaskCreatePinnedToCore")
    /\ spc # "none" => s_bme_lock # "null"
    /\ mpc \in RenderPositions => s_bme_lock # "null"
    /\ s_bme_lock \in {"main", "sensor"} => mpc \in RenderPositions
    /\ Done("print_data") <=> mpc \in RenderPositions \ {"clear"}

\* Both tasks run after the whole bootstrap, the sensor task inside a publish.
C13_Witness ==
    /\ bootlog = BootOrder
    /\ s_bme_lock = "sensor"
    /\ mpc = "r_take"

-----------------------------------------------------------------------------
(* The sensor configuration, and what the two tasks share                  *)

\* C14: whatever configure_sensor_settings returns, i2c_shared_init goes on
\* to the display probe; the call returns ESP_OK once the display's start-up
\* frame was flushed, a failure return comes only from a failed bus creation
\* or device attach, and an abort inside the call only from a failed display
\* operation or the failure return being checked by app_main.
C14_SensorConfigFailureTolerated ==
    /\ (hwlog # <<>> /\ hwlog[Len(hwlog)].op = "sensor_cfg") =>
          ~halted /\ ipc = "probe"
    /\ Created("init_update") =>
          retlog # <<>> /\ retlog[Len(retlog)].r = "ESP_OK"
    /\ (retlog # <<>> /\ retlog[Len(retlog)].r # "ESP_OK") =>
          Failed("new_bus") \/ Failed("add_ssd") \/ Failed("add_bme")
    /\ (halted /\ ~Done("i2c_shared_init")) =>
          \/ Failed("probe") \/ Failed("ssd_init") \/ Failed("init_update")
          \/ (mpc = "init_wait" /\ ret = "ESP_FAIL")

\* Both tasks are running although the sensor configuration had failed.
C14_Witness ==
    /\ Failed("sensor_cfg")
    /\ retlog # <<>> /\ retlog[1].r = "ESP_OK"
    /\ bootlog = BootOrder
    /\ mpc = "r_flush"
    /\ spc = "s_give"

\* One of the two tasks has started.
TasksStarted == Done("xTaskCreatePinnedToCore") \/ Done("print_data")

\* The handles are the ones i2c_shared_init left when it returned to app_main.
HandlesAsInitialised ==
    /\ retlog # <<>>
    /\ i2c_bus = retlog[1].bus
    /\ sensor_i2c_dev = retlog[1].bme
    /\ screen_i2c_dev = retlog[1].ssd
    /\ bme280_device_handle = sensor_i2c_dev
    /\ ssd1306_device_handle = screen_i2c_dev

\* The tasks that are in a transfer on the shared I2C bus: sensor_task in
\* bme_forced_read_once, the main task in print_data's ssd1306_update.
BusUsers == (IF spc = "s_read" THEN {"sensor"} ELSE {}) \cup
            (IF mpc = "r_flush" THEN {"main"} ELSE {})

\* C15 as stated: once a task has started the handles are never written, and
\* a task uses the shared bus only while it holds s_bme_lock.
C15_OnlyRecordShared ==
    TasksStarted =>
       /\ HandlesAsInitialised
       /\ \A t \in BusUsers : s_bme_lock = t

\* C15, amended: once a task has started the handles are never written and
\* the measurement record is accessed only by the holder of s_bme_lock; the
\* shared bus is used by both tasks, never by the holder of s_bme_lock.
C15_RecordUnderLockBusOutside ==
    TasksStarted =>
       /\ HandlesAsInitialised
       /\ RenderInCS => s_bme_lock = "main"
       /\ SensorInCS => s_bme_lock = "sensor"
       /\ \A t \in BusUsers : s_bme_lock # t

\* The sensor read and the display flush are in progress at the same time
\* and nobody holds the lock.
C15_Witness ==
    /\ TasksStarted
    /\ BusUsers = {"main", "sensor"}
    /\ s_bme_lock = "free"

-----------------------------------------------------------------------------
(* Progress of the two tasks                                               *)

\* The holder of s_bme_lock is inside its critical section, whose statements
\* are the three snprintf calls or the structure copy: no hardware call, no
\* vTaskDelay, no ESP_ERROR_CHECK.
HolderInCS ==
    /\ s_bme_lock = "main" => RenderInCS
    /\ s_bme_lock = "sensor" => SensorInCS

-----------------------------------------------------------------------------
(* The event handler                                                       *)

\* The event loop hands event e to wifi_event_handler in this step.
Handles_(e) ==
    /\ evq # <<>>
    /\ Head(evq) = e
    /\ EventBase(e) \in registered
    /\ evq' = Tail(evq)

\* C17: every step in which wifi_event_handler handles a
\* WIFI_EVENT_STA_DISCONNECTED makes exactly one esp_wifi_connect call,
\* however many were made before, and changes neither the halted flag nor
\* the position or any variable of the two tasks.
C17_DisconnectReconnectsOnce ==
    [][Handles_("WIFI_EVENT_STA_DISCONNECTED") =>
          /\ connects' = connects + 1
          /\ wifiSt' = "connecting"
          /\ UNCHANGED <<halted, mpc, taskVars, lastPublished, screen>>]_vars

\* A disconnect was handled before wifi_init_sta returned and another one
\* after, while both tasks run: the third connection attempt is under way.
C17_Witness ==
    /\ connectsAtReturn = 2
    /\ connects = 3
    /\ wifiSt = "connecting"
    /\ evq = <<>>
    /\ mpc \in RenderPositions
    /\ spc # "none"
    /\ ~halted

-----------------------------------------------------------------------------
(* The frame print_data flushes                                            *)

\* C18: the frame about to be flushed holds the five lines composed in this
\* iteration and nothing else: no start-up message and no glyph columns left
\* over from a line drawn in an earlier iteration.
C18_FrameHoldsOnlyThisIteration ==
    mpc = "r_flush" =>
       /\ screen["init"] = EmptyRow
       /\ screen["hum"].text = humidity_str
       /\ screen["temp"].text = temperature_str
       /\ screen["pres"].text = pressure_str
       /\ \A r \in Rows : screen[r].stale = {}

\* C19: while print_data reads the record it is the argument of the most
\* recently completed publish (the zero record when none has completed), and
\* the strings of a complete snapshot are the strings of that record.
C19_SnapshotIsLatestPublish ==
    /\ RenderInCS => bme280_device_data = lastPublished
    /\ mpc \in {"r_pres", "r_hum", "r_give"} =>
          temperature_str = FmtTemperature(lastPublished.temperature)
    /\ mpc \in {"r_hum", "r_give"} =>
          pressure_str = FmtPressure(lastPublished.pressure)
    /\ mpc = "r_give" => Snapshot = Strings(lastPublished)
    /\ published = {} => lastPublished = ZeroRecord

\* A snapshot is complete after two different records were published: it
\* holds the later one, which differs from what the previous snapshot held.
C19_Witness ==
    /\ mpc = "r_give"
    /\ Cardinality(published) >= 2
    /\ lastPublished \in Readings
    /\ Snapshot = Strings(lastPublished)
    /\ snapPrev # <<>>
    /\ snapPrev # Snapshot

\* C20: s_ip_ready exists whenever a handler is registered, the driver is
\* started or an event is waiting; the handler gives an existing semaphore
\* at every IP_EVENT_STA_GOT_IP; a signal given while wifi_init_sta has not
\* returned stays until the take; and once the event has been handled
\* wifi_init_sta returns.
C20_NoSignalLost ==
    /\ []((registered # {} \/ wifiSt # "off" \/ evq # <<>>) => s_ip_ready # "null")
    /\ []((ipHandled /\ mpc = "wait_ip") => s_ip_ready = "given")
    /\ [](ipHandled => (mpc = "wait_ip" \/ mpc \in AfterWifi))
    /\ [][Handles_("IP_EVENT_STA_GOT_IP") =>
             (s_ip_ready # "null" /\ s_ip_ready' = "given")]_vars
    /\ ipHandled ~> (mpc \in AfterWifi)

\* The address event was handled, after a failed attempt, and the signal
\* waits in the semaphore for wifi_init_sta's take.
C20_Witness ==
    /\ mpc = "wait_ip"
    /\ ipHandled
    /\ s_ip_ready = "given"
    /\ connects >= 2

=============================================================================
